---- MODULE Spec2Model ----
(***************************************************************************)
(* A model of the Alpaca websocket streaming client                        *)
(* (AlpacaWebSocket: listen, connect, subscribe, exchangeMessage,          *)
(* receiveMessages, setReadDeadline).                                      *)
(*                                                                         *)
(* Two tasks run per connection: the Supervisor (the goroutine that runs   *)
(* listen()) and the Frame Pump (the goroutine that runs                   *)
(* receiveMessages()).  Every step of the model is one piece of code       *)
(* between two blocking points (dial, socket read, socket write, channel   *)
(* send/receive, sink send).  The remote peer, the network and the clock   *)
(* are the environment: their choices are the \E of the actions.           *)
(***************************************************************************)
EXTENDS Integers, Sequences, FiniteSets, TLC

\* ------------------------------------------------------------------ bounds
\* longest handshake response, in tokens
MaxRespLen == 3
\* non-matching responses the remote sends within one exchange
MaxSkips == 2
\* data frames the remote sends during streaming
MaxFrames == 3
\* the clock stops advancing here (seconds)
MaxTime == 25
\* the clock advances in steps of this many seconds
TimeStep == 5
\* longest line Readline returns to the command-line client, in tokens
MaxLineLen == 2
\* lines the user enters in one run of the command-line client
MaxLines == 2

\* ------------------------------------------------------- program constants
\* pingPeriod: 10 * time.Second, in seconds
PingPeriod == 10
\* make(chan error, 1)
ErrorChanCap == 1

\* gorilla/websocket frame types seen by ReadMessage
TextMessage == "TextMessage"
BinaryMessage == "BinaryMessage"

\* the requests subscribe() builds
authMsg == "auth"
subMsg == "listen"
PingMessage == "ping"

\* A string is a sequence of tokens; Quote is the character ".
Quote == "quote"
Tokens == {Quote, "authenticated", "streams"}
\* `"authenticated"` (quoted) and `streams` (bare): the markers of subscribe()
AuthMarker == <<Quote, "authenticated", Quote>>
SubMarker == <<"streams">>

Strings(n) == UNION {[1..k -> Tokens] : k \in 0..n}
Responses == Strings(MaxRespLen)
Payloads == {"p1", "p2"}
Frames == [tt : {TextMessage, BinaryMessage}, pp : Payloads]

\* ------------------------------------------------------------------ errors
NilErr == [kind |-> "nil", cause |-> "", status |-> 0, body |-> ""]
NetErr(c) == [kind |-> "net", cause |-> c, status |-> 0, body |-> ""]
\* declared by the package, returned by nothing
errExchangeMessage == [kind |-> "didn't receive expected message", cause |-> "",
                       status |-> 0, body |-> ""]

DialCauses == {"bad handshake", "connection refused"}
WriteCauses == {"broken pipe"}
ReadCauses == {"close 1006"}
TimeoutCause == "i/o timeout"
ClosedCause == "use of closed network connection"
DeadlineCause == "set deadline failed"

\* the *http.Response of Dial: absent (nil) or present
NoResp == [present |-> FALSE, status |-> 0, body |-> ""]
HResp(s, b) == [present |-> TRUE, status |-> s, body |-> b]
SwitchingProtocols == HResp(101, "")
FailResponses == {HResp(403, "forbidden"), HResp(401, "unauthorized")}

VARIABLES
  supPc,      \* where the Supervisor (listen) stands
  retErr,     \* the error listen() returned (NilErr while it runs)
  raised,     \* history: the error the failing operation produced
  failedAt,   \* history: where the Supervisor stood when that operation failed
  response,   \* exchangeMessage: the response read last
  skips,      \* history: responses discarded by the running exchange
  supMsg,     \* listen: msg received from out, not yet sent to outputChan
  conn,       \* p.conn: "nil", "open", "closed"
  closeCount, \* history: calls of conn.Close()
  trace,      \* history: what listen() did to the Connection and the tasks
  deadline,   \* read deadline of the Connection, 0 = none
  hresp,      \* connect: the response Dial returned
  bodyLog,    \* history: operations on hresp.Body
  pumpPc,     \* where the Frame Pump (receiveMessages) stands
  tt,         \* receiveMessages: type of the frame read last
  pp,         \* receiveMessages: payload of the frame read last
  pumpErr,    \* receiveMessages: err
  errorChan,  \* contents of errorChan
  errSends,   \* history: sends on errorChan
  wire,       \* history: frames ReadMessage returned to the Pump, in order
  ticker,     \* "none", "running", "stopped"
  nextTick,   \* when the ticker fires next
  tickerC,    \* ticks waiting in ticker.C (capacity 1)
  now,        \* the clock, in seconds
  outputChan  \* history: payloads the OutputSink received, in order

\* the command-line client (Client of cmd/connect/cli)
VARIABLES
  cliPc,    \* where Client.Read stands: "Idle", "Readline", "Done"
  timing,   \* c.timing
  input,    \* history: the line r.Readline() returned last
  line,     \* Read: line, after strings.Trim
  readErr,      \* Read: err of r.Readline() or newReader()
  called,   \* history: what the switch did with the last line
  nLines    \* history: calls of r.Readline()

cliVars == <<cliPc, timing, input, line, readErr, called, nLines>>

\* NewLocalClient, NewRemoteClient
CliInit ==
  /\ cliPc = "Idle"
  /\ timing = FALSE
  /\ input = <<>>
  /\ line = <<>>
  /\ readErr = "nil"
  /\ called = ""
  /\ nLines = 0

supVars == <<supPc, retErr, raised, failedAt, response, skips, supMsg>>
connVars == <<conn, closeCount, trace, deadline, hresp, bodyLog>>
pumpVars == <<pumpPc, tt, pp, pumpErr, errorChan, errSends, wire>>
tickVars == <<ticker, nextTick, tickerC>>
wsVars == <<supVars, connVars, pumpVars, tickVars, now, outputChan>>
vars == <<wsVars, cliVars>>

\* ------------------------------------------------------------ pure helpers
ContainsAny(s, substr) ==
  \E i \in DOMAIN s : \E j \in DOMAIN substr : s[i] = substr[j]

\* strings.Contains(s, substr)
Contains(s, substr) ==
  \E i \in 0..(Len(s) - Len(substr)) :
    \A j \in 1..Len(substr) : s[i + j] = substr[j]

ReadDeadlineRounded(t) == t + PingPeriod * (6 \div 5)

\* time.Now().Add((p.pingPeriod * 6) / 5)
ReadDeadline(t) == t + (PingPeriod * 6) \div 5

ConnectErrCauseOnly(cause, r) ==
  [kind |-> "connection failure", cause |-> cause, status |-> 0, body |-> ""]

\* fmt.Errorf of connect(): with status and body when a response came
ConnectErr(cause, r) ==
  IF r.present
  THEN [kind |-> "connection failure", cause |-> cause,
        status |-> r.status, body |-> r.body]
  ELSE [kind |-> "connection failure", cause |-> cause, status |-> 0, body |-> ""]

\* NewAlpacaWebSocket
Init ==
  /\ supPc = "Disconnected"
  /\ retErr = NilErr
  /\ raised = NilErr
  /\ failedAt = ""
  /\ response = <<>>
  /\ skips = 0
  /\ supMsg = ""
  /\ conn = "nil"
  /\ closeCount = 0
  /\ trace = <<>>
  /\ deadline = 0
  /\ hresp = NoResp
  /\ bodyLog = <<>>
  /\ pumpPc = "NotStarted"
  /\ tt = ""
  /\ pp = ""
  /\ pumpErr = NilErr
  /\ errorChan = <<>>
  /\ errSends = 0
  /\ wire = <<>>
  /\ ticker = "none"
  /\ nextTick = 0
  /\ tickerC = 0
  /\ now = 0
  /\ outputChan = <<>>
  /\ CliInit

\* ------------------------------------------------------------- Supervisor
\* the deferred calls of listen(), run (last registered first) by every
\* return that follows a successful dial: ticker.Stop(), conn.Close()
DeferredNoClose ==
  /\ ticker' = IF ticker = "running" THEN "stopped" ELSE ticker
  /\ trace' = trace \o (IF ticker = "running" THEN <<"stop">> ELSE <<>>)
  /\ UNCHANGED <<conn, closeCount>>

Deferred ==
  /\ ticker' = IF ticker = "running" THEN "stopped" ELSE ticker
  /\ conn' = "closed"
  /\ closeCount' = closeCount + 1
  /\ trace' = trace \o (IF ticker = "running" THEN <<"stop">> ELSE <<>>) \o <<"close">>

ReturnedSentinel(err) == errExchangeMessage

\* the value of `return err`
Returned(err) == err

\* `return err` of listen() after the dial succeeded; the failing operation
\* produced `cause`
Return(cause, err) ==
  /\ supPc' = "Closed"
  /\ raised' = cause
  /\ failedAt' = supPc
  /\ retErr' = Returned(err)
  /\ Deferred

\* listen() is called: connect() issues the dial
Listen ==
  /\ supPc = "Disconnected"
  /\ supPc' = "Connecting"
  /\ trace' = Append(trace, "dial")
  /\ UNCHANGED <<retErr, raised, failedAt, response, skips, supMsg>>
  /\ UNCHANGED <<conn, closeCount, deadline, hresp, bodyLog>>
  /\ UNCHANGED <<pumpVars, tickVars, now, outputChan, cliVars>>

\* what Dial returns: (conn, response, nil), (nil, response, err), (nil, nil, err)
DialResults ==
  {<<"", SwitchingProtocols>>}
    \cup (DialCauses \X FailResponses)
    \cup (DialCauses \X {NoResp})

connectRetry(cause, r) ==
  /\ hresp' = r
  /\ IF cause # ""
     THEN /\ supPc' = "Disconnected"
          /\ raised' = NetErr(cause)
          /\ failedAt' = supPc
          /\ UNCHANGED <<retErr, bodyLog, conn, closeCount>>
     ELSE /\ supPc' = "AuthWrite"
          /\ conn' = "open"
          /\ bodyLog' = <<"Close">>
          /\ UNCHANGED <<retErr, raised, failedAt, closeCount>>

\* connect() once Dial has returned (r, cause), and listen() up to subscribe()
connect(cause, r) ==
  /\ hresp' = r
  /\ IF ~r.present
     THEN \* defer ...(hresp.Body) evaluates hresp.Body on a nil hresp:
          \* nil pointer dereference, the goroutine panics
          /\ supPc' = "Panicked"
          /\ raised' = NetErr(cause)
          /\ failedAt' = supPc
          /\ UNCHANGED <<retErr, bodyLog, conn, closeCount>>
     ELSE IF cause # ""
     THEN \* io.ReadAll(hresp.Body), return fmt.Errorf(...); deferred Body.Close()
          /\ supPc' = "Closed"
          /\ raised' = NetErr(cause)
          /\ failedAt' = supPc
          /\ retErr' = ConnectErr(cause, r)
          /\ bodyLog' = <<"ReadAll", "Close">>
          /\ UNCHANGED <<conn, closeCount>>
     ELSE \* return nil; deferred Body.Close(); listen() goes on to subscribe()
          /\ supPc' = "AuthWrite"
          /\ conn' = "open"
          /\ bodyLog' = <<"Close">>
          /\ UNCHANGED <<retErr, raised, failedAt, closeCount>>

ConnectEarlyPump ==
  /\ supPc = "Connecting"
  /\ \E d \in DialResults :
       /\ connect(d[1], d[2])
       /\ pumpPc' = IF d[1] = "" THEN "Read" ELSE pumpPc
  /\ UNCHANGED <<response, skips, supMsg, trace, deadline>>
  /\ UNCHANGED <<tt, pp, pumpErr, errorChan, errSends, wire>>
  /\ UNCHANGED <<tickVars, now, outputChan, cliVars>>

\* listen() calls p.connect()
Connect ==
  /\ supPc = "Connecting"
  /\ \E d \in DialResults : connect(d[1], d[2])
  /\ UNCHANGED <<response, skips, supMsg, trace, deadline>>
  /\ UNCHANGED <<pumpVars, tickVars, now, outputChan, cliVars>>

\* errors a read on the Connection can return now
ReadErrors ==
  IF conn = "closed" THEN {ClosedCause}
  ELSE ReadCauses \cup (IF deadline # 0 /\ now > deadline THEN {TimeoutCause} ELSE {})

\* exchangeMessage(send, expect): p.conn.WriteMessage(TextMessage, send).
\* An error is returned by exchangeMessage, by subscribe and by listen.
ExchangeWrite(at, send, reading) ==
  /\ supPc = at
  /\ \/ /\ trace' = Append(trace, send)
        /\ supPc' = reading
        /\ response' = <<>>
        /\ skips' = 0
        /\ UNCHANGED <<retErr, raised, failedAt, conn, closeCount, ticker>>
     \/ \E c \in WriteCauses :
          /\ Return(NetErr(c), NetErr(c))
          /\ UNCHANGED <<response, skips>>
  /\ UNCHANGED <<supMsg, deadline, hresp, bodyLog, pumpVars, nextTick, tickerC>>
  /\ UNCHANGED <<now, outputChan, cliVars>>

\* history: the exchange that a response with the marker `expect` ends
Accepted(expect) == IF expect = AuthMarker THEN "authenticated" ELSE "subscribed"

\* exchangeMessage: the read loop.  A response without the marker is logged
\* and the loop reads again; a response with it ends the loop and is
\* returned (the Supervisor moves to `done`); a failing read is returned by
\* exchangeMessage, by subscribe and by listen.
ExchangeRead(reading, expect, done) ==
  /\ supPc = reading
  /\ \/ \E r \in Responses :
          /\ response' = r
          /\ IF Contains(r, expect)
             THEN /\ supPc' = done
                  /\ trace' = Append(trace, Accepted(expect))
                  /\ UNCHANGED skips
             ELSE /\ skips < MaxSkips
                  /\ skips' = skips + 1
                  /\ UNCHANGED <<supPc, trace>>
          /\ UNCHANGED <<retErr, raised, failedAt, conn, closeCount, ticker>>
     \/ \E c \in ReadErrors :
          /\ Return(NetErr(c), NetErr(c))
          /\ UNCHANGED <<response, skips>>
  /\ UNCHANGED <<supMsg, deadline, hresp, bodyLog, pumpVars, nextTick, tickerC>>
  /\ UNCHANGED <<now, outputChan, cliVars>>

AuthWriteOnly == ExchangeWrite("AuthWrite", authMsg, "SubWrite")

\* resp, err = p.exchangeMessage(authMsg, `"authenticated"`)
AuthWrite == ExchangeWrite("AuthWrite", authMsg, "AuthRead")
AuthRead == ExchangeRead("AuthRead", AuthMarker, "SubWrite")
\* resp, err = p.exchangeMessage(subMsg, "streams")
SubWrite == ExchangeWrite("SubWrite", subMsg, "SubRead")
SubRead == ExchangeRead("SubRead", SubMarker, "SetDeadline")

\* lines 76-79 of listen(): the channels, go receiveMessages, the ticker
StartStreaming(tr) ==
  /\ errorChan' = <<>>
  /\ pumpPc' = "Read"
  /\ ticker' = "running"
  /\ nextTick' = now + PingPeriod
  /\ supPc' = "Select"
  /\ trace' = tr \o <<"go receiveMessages", "NewTicker">>

\* subscribe() returns p.setReadDeadline(); on nil listen() starts streaming
SetDeadline ==
  /\ supPc = "SetDeadline"
  /\ response' = <<>>
  /\ skips' = 0
  /\ \/ /\ deadline' = ReadDeadline(now)
        /\ StartStreaming(Append(trace, "deadline"))
        /\ UNCHANGED <<retErr, raised, failedAt, conn, closeCount>>
     \/ /\ Return(NetErr(DeadlineCause), NetErr(DeadlineCause))
        /\ UNCHANGED <<deadline, errorChan, pumpPc, nextTick>>
  /\ UNCHANGED <<supMsg, hresp, bodyLog, tt, pp, pumpErr, errSends, wire>>
  /\ UNCHANGED <<tickerC, now, outputChan, cliVars>>

SupRecvErrContinue ==
  /\ supPc = "Select"
  /\ errorChan # <<>>
  /\ errorChan' = Tail(errorChan)
  /\ UNCHANGED <<supVars, connVars, tickVars>>
  /\ UNCHANGED <<pumpPc, tt, pp, pumpErr, errSends, wire>>
  /\ UNCHANGED <<now, outputChan, cliVars>>

\* select: case err := <-errorChan: return err
SupRecvErr ==
  /\ supPc = "Select"
  /\ errorChan # <<>>
  /\ errorChan' = Tail(errorChan)
  /\ Return(Head(errorChan), Head(errorChan))
  /\ UNCHANGED <<response, skips, supMsg, deadline, hresp, bodyLog>>
  /\ UNCHANGED <<pumpPc, tt, pp, pumpErr, errSends, wire, nextTick, tickerC>>
  /\ UNCHANGED <<now, outputChan, cliVars>>

SupTickContinue ==
  /\ supPc = "Select"
  /\ tickerC > 0
  /\ tickerC' = tickerC - 1
  /\ \/ /\ trace' = Append(trace, PingMessage)
        /\ UNCHANGED <<raised, failedAt>>
     \/ \E c \in WriteCauses :
          /\ raised' = NetErr(c)
          /\ failedAt' = supPc
          /\ UNCHANGED trace
  /\ UNCHANGED <<supPc, retErr, conn, closeCount, ticker>>
  /\ UNCHANGED <<response, skips, supMsg, deadline, hresp, bodyLog>>
  /\ UNCHANGED <<pumpVars, nextTick, now, outputChan, cliVars>>

\* select: case <-ticker.C: p.conn.WriteControl(PingMessage, ...)
SupTick ==
  /\ supPc = "Select"
  /\ tickerC > 0
  /\ tickerC' = tickerC - 1
  /\ \/ /\ trace' = Append(trace, PingMessage)
        /\ UNCHANGED <<supPc, retErr, raised, failedAt, conn, closeCount, ticker>>
     \/ \E c \in WriteCauses : Return(NetErr(c), NetErr(c))
  /\ UNCHANGED <<response, skips, supMsg, deadline, hresp, bodyLog>>
  /\ UNCHANGED <<pumpVars, nextTick, now, outputChan, cliVars>>

\* what the Pump does once its send on out was taken: the next loop iteration
AfterSend == "Read"

\* select: case msg := <-out, the rendezvous with the Pump's `out <- pp`
SupRecvFrame ==
  /\ supPc = "Select"
  /\ pumpPc = "SendOut"
  /\ supMsg' = pp
  /\ supPc' = "Forward"
  /\ pumpPc' = AfterSend
  /\ UNCHANGED <<retErr, raised, failedAt, response, skips>>
  /\ UNCHANGED <<connVars, tt, pp, pumpErr, errorChan, errSends, wire>>
  /\ UNCHANGED <<tickVars, now, outputChan, cliVars>>

DeliverTwice(sink, msg) == sink \o <<msg, msg>>
DeliverFirst(sink, msg) == <<msg>> \o sink

\* the sink after `p.outputChan <- msg`
Deliver(sink, msg) == Append(sink, msg)

\* p.outputChan <- msg, taken by the sink's consumer
SupForward ==
  /\ supPc = "Forward"
  /\ outputChan' = Deliver(outputChan, supMsg)
  /\ supMsg' = ""
  /\ supPc' = "Select"
  /\ UNCHANGED <<retErr, raised, failedAt, response, skips>>
  /\ UNCHANGED <<connVars, pumpVars, tickVars, now, cliVars>>

\* ------------------------------------------------------------- Frame Pump
AfterReadAny(t) == "SendOut"
AfterReadNoWait(t) == "Read"

\* receiveMessages after a successful ReadMessage of a frame of type t:
\* a binary frame is dropped (continue), a text frame goes to out
AfterRead(t) == IF t = BinaryMessage THEN "Read" ELSE "SendOut"

AfterErrorContinue == "Read"

\* receiveMessages after `errorChan <- err`: return
AfterError == "Done"

PumpReadClosed ==
  /\ pumpPc = "Read"
  /\ Len(wire) < MaxFrames
  /\ \E f \in Frames :
       /\ tt' = f.tt
       /\ pp' = f.pp
       /\ wire' = Append(wire, f)
       /\ pumpPc' = AfterRead(f.tt)
  /\ UNCHANGED <<pumpErr, errorChan, errSends>>
  /\ UNCHANGED <<supVars, connVars, tickVars, now, outputChan, cliVars>>

\* tt, pp, err := p.conn.ReadMessage() returns a data frame
PumpRead ==
  /\ pumpPc = "Read"
  /\ conn = "open"
  /\ Len(wire) < MaxFrames
  /\ \E f \in Frames :
       /\ tt' = f.tt
       /\ pp' = f.pp
       /\ wire' = Append(wire, f)
       /\ pumpPc' = AfterRead(f.tt)
  /\ UNCHANGED <<pumpErr, errorChan, errSends>>
  /\ UNCHANGED <<supVars, connVars, tickVars, now, outputChan, cliVars>>

\* ReadMessage returns an error
PumpReadErr ==
  /\ pumpPc = "Read"
  /\ \E c \in ReadErrors : pumpErr' = NetErr(c)
  /\ pumpPc' = "SendErr"
  /\ UNCHANGED <<tt, pp, errorChan, errSends, wire>>
  /\ UNCHANGED <<supVars, connVars, tickVars, now, outputChan, cliVars>>

PumpSendErrOther ==
  /\ pumpPc = "SendErr"
  /\ Len(errorChan) < ErrorChanCap
  /\ errorChan' = Append(errorChan, errExchangeMessage)
  /\ errSends' = errSends + 1
  /\ pumpPc' = AfterError
  /\ UNCHANGED <<tt, pp, pumpErr, wire>>
  /\ UNCHANGED <<supVars, connVars, tickVars, now, outputChan, cliVars>>

\* errorChan <- err; return
PumpSendErr ==
  /\ pumpPc = "SendErr"
  /\ Len(errorChan) < ErrorChanCap
  /\ errorChan' = Append(errorChan, pumpErr)
  /\ errSends' = errSends + 1
  /\ pumpPc' = AfterError
  /\ UNCHANGED <<tt, pp, pumpErr, wire>>
  /\ UNCHANGED <<supVars, connVars, tickVars, now, outputChan, cliVars>>

\* ------------------------------------------------------------ environment
\* the handler of SetPongHandler, run inside a ReadMessage that meets a pong
PongHandler(t) == ReadDeadline(t)

\* a pong arrives while a task reads the Connection
Pong ==
  /\ conn = "open"
  /\ supPc \in {"AuthRead", "SubRead"} \/ pumpPc = "Read"
  /\ deadline' = PongHandler(now)
  /\ UNCHANGED <<conn, closeCount, trace, hresp, bodyLog>>
  /\ UNCHANGED <<supVars, pumpVars, tickVars, now, outputChan, cliVars>>

\* the runtime timer of time.NewTicker(p.pingPeriod); a tick that finds
\* ticker.C full is dropped
TickerFire ==
  /\ ticker = "running"
  /\ now >= nextTick
  /\ tickerC' = 1
  /\ nextTick' = nextTick + PingPeriod
  /\ UNCHANGED <<ticker, supVars, connVars, pumpVars, now, outputChan, cliVars>>

\* time passes while listen() runs
Tick ==
  /\ supPc \notin {"Disconnected", "Closed", "Panicked"}
  /\ now < MaxTime
  /\ now' = now + TimeStep
  /\ UNCHANGED <<supVars, connVars, pumpVars, tickVars, outputChan, cliVars>>

\* ------------------------------------------------- command-line client
\* Client.Read of cmd/connect/cli: the evaluation loop.  A line is a
\* sequence of tokens: a space, a command word, or other text.
Space == " "
Words == {"\\timing", "\\show", "help",
          "\\stop", "\\quit", "\\q", "exit", "select"}
Lines == UNION {[1..k -> Words \cup {Space}] : k \in 0..MaxLineLen}

\* what r.Readline() returns beside the line
EOF == "io.EOF"
ErrInterrupt == "readline.ErrInterrupt"
OtherReadErrors == {"read /dev/stdin: input/output error"}

RECURSIVE TrimLeft(_)
TrimLeft(s) ==
  IF s # <<>> /\ Head(s) = Space THEN TrimLeft(Tail(s)) ELSE s
RECURSIVE TrimRight(_)
TrimRight(s) ==
  IF s # <<>> /\ s[Len(s)] = Space THEN TrimRight(SubSeq(s, 1, Len(s) - 1)) ELSE s

\* strings.Trim(line, " ")
Trim(s) == TrimRight(TrimLeft(s))

\* strings.HasPrefix(line, word), for a word that is one token
HasPrefix(s, word) == s # <<>> /\ s[1] = word

FlipOn(b) == TRUE

\* c.timing = !c.timing
Flip(b) == ~b

\* the case the switch of Read takes on the trimmed line l
Eval(l) ==
  CASE HasPrefix(l, "\\timing") -> "timing"
    [] HasPrefix(l, "\\show") -> "show"
    [] HasPrefix(l, "\\trim") -> "trim"
    [] HasPrefix(l, "\\gaps") -> "findGaps"
    [] HasPrefix(l, "\\load") -> "load"
    [] HasPrefix(l, "\\create") -> "create"
    [] HasPrefix(l, "\\help") \/ HasPrefix(l, "\\?") -> "functionHelp"
    [] l = <<"help">> -> "functionHelp"
    [] l \in {<<"\\stop">>, <<"\\quit">>, <<"\\q">>, <<"exit">>} -> "quit"
    [] l = <<>> -> "continue"
    [] OTHER -> "sql"

\* Read() is called: newReader() builds the reader or fails
CliStart ==
  /\ cliPc = "Idle"
  /\ \/ cliPc' = "Readline" /\ UNCHANGED readErr
     \/ cliPc' = "Done" /\ readErr' = "unable to obtain home directory"
  /\ UNCHANGED <<timing, input, line, called, nLines, wsVars>>

\* r.Readline() returns an error: io.EOF ends the loop, any other continues
CliReadErr ==
  /\ cliPc = "Readline"
  /\ nLines < MaxLines
  /\ nLines' = nLines + 1
  /\ \E e \in {EOF, ErrInterrupt} \cup OtherReadErrors :
       /\ readErr' = e
       /\ cliPc' = IF e = EOF THEN "Done" ELSE "Readline"
  /\ input' = <<>>
  /\ called' = ""
  /\ UNCHANGED <<timing, line, wsVars>>

\* r.Readline() returns a line: one iteration of the loop
CliReadLine ==
  /\ cliPc = "Readline"
  /\ nLines < MaxLines
  /\ nLines' = nLines + 1
  /\ readErr' = "nil"
  /\ \E l \in Lines :
       /\ input' = l
       /\ line' = Trim(l)
       /\ called' = Eval(Trim(l))
       /\ timing' = IF Eval(Trim(l)) = "timing" THEN Flip(timing) ELSE timing
       /\ cliPc' = IF Eval(Trim(l)) = "quit" THEN "Done" ELSE "Readline"
  /\ UNCHANGED wsVars

CliNext ==
  \/ CliStart
  \/ CliReadErr
  \/ CliReadLine

Next ==
  \/ Listen
  \/ Connect
  \/ AuthWrite
  \/ AuthRead
  \/ SubWrite
  \/ SubRead
  \/ SetDeadline
  \/ SupRecvErr
  \/ SupTick
  \/ SupRecvFrame
  \/ SupForward
  \/ PumpRead
  \/ PumpReadErr
  \/ PumpSendErr
  \/ Pong
  \/ TickerFire
  \/ Tick

Spec == Init /\ [][Next]_vars

\* the command-line client alone
SpecCli == Init /\ [][CliNext]_vars

\* Scheduling of the two goroutines of listen(): a send on errorChan that has
\* room completes, and a select whose errorChan case stays ready takes it
\* (select chooses among its ready cases at random).  Nothing is assumed of
\* the consumer of outputChan, which is not part of the program.
FairSpec == Spec /\ WF_vars(PumpSendErr) /\ WF_vars(SupRecvErr)

\* ------------------------------------------------- vocabulary of the claims
Count(seq, e) == Cardinality({i \in DOMAIN seq : seq[i] = e})
IsPrefix(a, b) == Len(a) <= Len(b) /\ SubSeq(b, 1, Len(a)) = a
IsText(f) == f.tt = TextMessage
\* payloads of the text frames of w, in order
TextPayloads(w) ==
  LET t == SelectSeq(w, IsText) IN [i \in 1..Len(t) |-> t[i].pp]
\* the dial returned a Connection
DialSucceeded == supPc \notin {"Disconnected", "Connecting"} /\ failedAt # "Connecting"
\* listen() returned because it received from errorChan
ExitOnErrorSignal == supPc = "Closed" /\ failedAt = "Select" /\ errSends = 1 /\ errorChan = <<>>
\* listen() returned because a ping write failed
ExitOnPingFailure == supPc = "Closed" /\ failedAt = "Select" /\ ~ExitOnErrorSignal
\* frames read and handed over or held, not yet in the sink
InFlight ==
  (IF supPc = "Forward" THEN <<supMsg>> ELSE <<>>)
    \o (IF pumpPc = "SendOut" THEN <<pp>> ELSE <<>>)

\* ------------------------------------------------------------------ claims
\* C1: a listen() whose dial succeeded has closed the Connection exactly once
\* when it returns, on every exit path; a listen() whose dial failed closes
\* no Connection; the Connection is never closed twice.
C1_ClosedExactlyOnce ==
  /\ closeCount = Count(trace, "close")
  /\ closeCount <= 1
  /\ (supPc = "Closed" /\ DialSucceeded) => (closeCount = 1 /\ conn = "closed")
  /\ ~DialSucceeded => (closeCount = 0 /\ conn = "nil")

\* listen() returned after a ping write failed during streaming
C1_Witness ==
  /\ ExitOnPingFailure
  /\ retErr.cause \in WriteCauses
  /\ closeCount = 1
  /\ ticker = "stopped"

\* C2 as stated: when listen() has returned, every text frame the Pump read
\* is in the sink exactly once.
C2_AllReadDelivered ==
  supPc = "Closed" => outputChan = TextPayloads(wire)

\* C2 amended: the text frames read are, in order, those in the sink followed
\* by the one the Supervisor is forwarding and the one the Pump holds; none
\* is in the sink twice; a return through errorChan leaves none undelivered,
\* a return through a ping write failure leaves at most the Pump's one.
C2_DeliveredOnceOrPending ==
  /\ TextPayloads(wire) = outputChan \o InFlight
  /\ ExitOnErrorSignal => outputChan = TextPayloads(wire)
  /\ ExitOnPingFailure =>
       /\ Len(TextPayloads(wire)) - Len(outputChan) <= 1
       /\ Len(outputChan) < Len(TextPayloads(wire)) => pumpPc = "SendOut"

\* a ping write failed while the Pump held a text frame: the frame is lost
C2_Witness ==
  /\ ExitOnPingFailure
  /\ pumpPc = "SendOut"
  /\ Len(outputChan) >= 1
  /\ TextPayloads(wire) = Append(outputChan, pp)

\* C3: the payloads in the sink are a prefix of the payloads of the text
\* frames read from the wire, in every state.
C3_OutputIsPrefixOfWire ==
  IsPrefix(outputChan, TextPayloads(wire))

\* two different text payloads, a binary frame between them, both delivered
C3_Witness ==
  /\ Len(outputChan) = 2
  /\ outputChan[1] # outputChan[2]
  /\ \E i \in DOMAIN wire : wire[i].tt = BinaryMessage
  /\ supPc = "Select"

\* the step is a ReadMessage of the Pump that returned a binary frame
BinaryRead ==
  /\ pumpPc = "Read"
  /\ Len(wire') = Len(wire) + 1
  /\ wire'[Len(wire')].tt = BinaryMessage

\* C4: a binary frame is not sent on out, not reported on errorChan, not
\* delivered to the sink, and the Pump goes back to ReadMessage.
C4_BinaryDropped ==
  /\ [](pumpPc = "SendOut" => (tt = TextMessage /\ wire[Len(wire)].tt = TextMessage))
  /\ [][BinaryRead =>
          /\ pumpPc' = "Read"
          /\ UNCHANGED <<errorChan, errSends, pumpErr, supMsg, outputChan>>]_vars

\* a binary frame was read, then a text frame was read and delivered
C4_Witness ==
  /\ Len(wire) = 2
  /\ wire[1].tt = BinaryMessage
  /\ wire[2].tt = TextMessage
  /\ outputChan = <<wire[2].pp>>

\* r holds the marker m as a contiguous run of tokens
HasMarker(r, m) ==
  \E i \in 1..(Len(r) + 1) :
    i + Len(m) - 1 <= Len(r) /\ SubSeq(r, i, i + Len(m) - 1) = m
Reading == {"AuthRead", "SubRead"}
Writing == {"AuthWrite", "SubWrite"}
ExpectAt(pc) == IF pc = "AuthRead" THEN AuthMarker ELSE SubMarker
DoneAt(pc) == IF pc = "AuthRead" THEN "SubWrite" ELSE "SetDeadline"
\* the step is a read of exchangeMessage that returned a response
ResponseRead ==
  supPc \in Reading /\ (skips' = skips + 1 \/ supPc' = DoneAt(supPc))

\* what a step taken in the read loop of exchangeMessage may do
ExchangeReadStep ==
  /\ (ResponseRead /\ ~HasMarker(response', ExpectAt(supPc))) =>
       (supPc' = supPc /\ UNCHANGED <<trace, retErr, raised, conn>>)
  /\ (supPc' = DoneAt(supPc)) => HasMarker(response', ExpectAt(supPc))
  /\ (supPc' \notin {supPc, DoneAt(supPc)}) =>
       (/\ supPc' = "Closed"
        /\ raised'.cause \in ReadCauses \cup {TimeoutCause}
        /\ retErr' # NilErr)
\* what a step taken at the write of exchangeMessage may do
ExchangeWriteStep ==
  (supPc' = "Closed") => (raised'.cause \in WriteCauses /\ retErr' # NilErr)

\* C5: in an exchange, a response without the marker leaves the Supervisor
\* in the read loop with nothing sent and nothing returned; the exchange
\* ends well only on a response with the marker, and ends with an error only
\* when the write or a read failed; a request is written at most once.
C5_ExchangeLoopsUntilMarker ==
  /\ [](Count(trace, authMsg) <= 1 /\ Count(trace, subMsg) <= 1)
  /\ [][(supPc \in Reading) => ExchangeReadStep]_vars
  /\ [][(supPc \in Writing) => ExchangeWriteStep]_vars

\* the authentication exchange discarded responses, then met the marker
C5_Witness ==
  /\ supPc = "SubWrite"
  /\ skips = MaxSkips
  /\ HasMarker(response, AuthMarker)
  /\ Count(trace, authMsg) = 1

\* every b in the trace has an a before it
Before(a, b) ==
  \A j \in DOMAIN trace : trace[j] = b => \E i \in 1..(j - 1) : trace[i] = a
\* the states of listen(); a panic inside connect() leaves it in Connecting
Rank(pc) ==
  CASE pc = "Disconnected" -> 0
    [] pc \in {"Connecting", "Panicked"} -> 1
    [] pc \in {"AuthWrite", "AuthRead"} -> 2
    [] pc \in {"SubWrite", "SubRead", "SetDeadline"} -> 3
    [] pc \in {"Select", "Forward"} -> 4
    [] pc = "Closed" -> 5

\* listen() stays, moves one state forward, or ends; Closed is final
StateStep ==
  /\ Rank(supPc') \in {Rank(supPc), Rank(supPc) + 1, Rank("Closed")}
  /\ (supPc = "Closed") => (supPc' = "Closed")

\* C6: listen() goes through its states in order, forward one at a time or
\* to Closed, and Closed is final; the subscription request follows an
\* authentication response with the marker; the Pump, the ticker and every
\* ping follow a subscription response with the marker and the arming of the
\* read deadline.
C6_StatesInOrder ==
  /\ [](/\ Before("dial", authMsg)
        /\ Before(authMsg, "authenticated")
        /\ Before("authenticated", subMsg)
        /\ Before(subMsg, "subscribed")
        /\ \A e \in {"go receiveMessages", "NewTicker", PingMessage} :
             Before("subscribed", e) /\ Before("deadline", e)
        /\ supPc = "SubWrite" => HasMarker(response, AuthMarker)
        /\ supPc = "SetDeadline" => HasMarker(response, SubMarker)
        /\ pumpPc # "NotStarted" => Count(trace, "go receiveMessages") = 1
        /\ ticker # "none" => Count(trace, "NewTicker") = 1
        /\ Rank(supPc) = 4 => (pumpPc # "NotStarted" /\ ticker = "running" /\ deadline # 0)
        /\ Rank(supPc) < 4 => (pumpPc = "NotStarted" /\ ticker = "none"))
  /\ [][StateStep]_vars

\* a run through all six states: frames delivered, a ping written, closed
C6_Witness ==
  /\ supPc = "Closed"
  /\ failedAt = "Select"
  /\ Count(trace, PingMessage) >= 1
  /\ Len(outputChan) >= 1

\* C7: when a write or a read of the handshake fails, listen() returns that
\* very error, sends no further request, starts neither the Pump nor the
\* ticker, writes no ping, and delivers nothing.
C7_HandshakeFailureAborts ==
  failedAt \in Reading \cup Writing =>
    /\ supPc = "Closed"
    /\ raised # NilErr
    /\ retErr = raised
    /\ Count(trace, authMsg) <= 1 /\ Count(trace, subMsg) <= 1
    /\ failedAt = "AuthWrite" => Count(trace, authMsg) = 0
    /\ failedAt \in {"AuthWrite", "AuthRead"} => Count(trace, subMsg) = 0
    /\ failedAt = "SubWrite" => Count(trace, subMsg) = 0
    /\ Count(trace, PingMessage) = 0
    /\ Count(trace, "dial") = 1
    /\ pumpPc = "NotStarted"
    /\ ticker = "none"
    /\ wire = <<>>
    /\ outputChan = <<>>

\* the server answered the authentication without the marker, then closed
C7_Witness ==
  /\ failedAt = "AuthRead"
  /\ skips >= 1
  /\ ~HasMarker(response, AuthMarker)
  /\ retErr = NetErr("close 1006")

\* C8 as stated: a dial that fails without a response makes connect() and
\* listen() return an error that carries the cause alone, with nothing held.
C8_DialFailureWithoutResponse ==
  (supPc \notin {"Disconnected", "Connecting"} /\ ~hresp.present) =>
    /\ supPc = "Closed"
    /\ retErr = ConnectErr(raised.cause, NoResp)
    /\ closeCount = 0
    /\ conn = "nil"

\* a step in which the Pump does nothing: no read, no send
PumpSilent ==
  /\ pumpPc' = "Done"
  /\ UNCHANGED <<wire, errSends, pumpErr, tt, pp>>
  /\ Len(errorChan') <= Len(errorChan)
  /\ (supPc' = "Forward") => (supPc = "Forward")

\* C9: the Pump sends on errorChan at most once, errorChan never holds two
\* values, and after the send the Pump has returned: no read, no send.
C9_OneErrorThenSilence ==
  /\ [](/\ errSends <= 1
        /\ Len(errorChan) <= 1
        /\ errSends = 1 => pumpPc = "Done")
  /\ [][(pumpPc = "Done") => PumpSilent]_vars

\* the Pump's error sits in errorChan after listen() left on a ping failure
C9_Witness ==
  /\ pumpPc = "Done"
  /\ errSends = 1
  /\ errorChan = <<NetErr(ClosedCause)>>
  /\ ExitOnPingFailure

\* a step of the Pump: a read, a send on errorChan, a send on out
PumpStep == PumpRead \/ PumpReadErr \/ PumpSendErr \/ SupRecvFrame

\* C10 as stated: once listen() has returned, a Pump that has not finished
\* can take a step; it is not blocked.
C10_PumpCanFinish ==
  (supPc = "Closed" /\ pumpPc \notin {"NotStarted", "Done"}) => ENABLED PumpStep

\* the consumer of outputChan keeps receiving: the Supervisor does not stay
\* in `p.outputChan <- msg` forever
SinkReceives == []<>(supPc # "Forward")

\* the Pump's ReadMessage has failed because the read deadline passed
ReadTimedOut == pumpPc = "SendErr" /\ pumpErr.cause = TimeoutCause
\* listen() has returned an error and the Connection is closed
ReturnedClosed == supPc = "Closed" /\ retErr # NilErr /\ conn = "closed"

\* C11 as stated: once the Pump's read has failed on the passed deadline,
\* listen() eventually returns an error and the Connection is closed.
C11_TimeoutEndsListen ==
  ReadTimedOut ~> ReturnedClosed

\* C11 amended: the same, provided the consumer of outputChan keeps
\* receiving.
C11_TimeoutEndsListenIfSinkReceives ==
  SinkReceives => (ReadTimedOut ~> ReturnedClosed)

\* listen() returned the deadline error of the Pump's read, after a ping
C11_Witness ==
  /\ ExitOnErrorSignal
  /\ retErr = NetErr(TimeoutCause)
  /\ conn = "closed"
  /\ Count(trace, PingMessage) >= 1
  /\ now > deadline

\* a ping write of the streaming loop has failed
PingWriteFailed == failedAt = "Select" /\ raised.cause \in WriteCauses
\* the step in which a ping write fails
PingWriteFails == ~PingWriteFailed /\ PingWriteFailed'
\* what that step does: nothing is received from out or errorChan, nothing
\* is forwarded, no ping is written; the ticker is stopped, then the
\* Connection closed, and listen() has returned the write error
PingFailureStep ==
  /\ UNCHANGED <<errorChan, pumpPc, supMsg, outputChan, wire>>
  /\ trace' = trace \o <<"stop", "close">>
  /\ supPc' = "Closed"
  /\ retErr' = raised'

\* C12: a failed ping write makes listen() return that write error at once:
\* from the failure on nothing is received from out or errorChan, nothing is
\* forwarded and no ping written; the ticker is stopped and the Connection
\* closed when listen() has returned.
C12_PingFailureReturnsAtOnce ==
  /\ [](PingWriteFailed =>
         /\ supPc = "Closed"
         /\ retErr = raised
         /\ ticker = "stopped"
         /\ conn = "closed")
  /\ [][PingWriteFails => PingFailureStep]_vars

\* a ping write failed after an earlier ping, with a frame waiting on out
\* and nothing in errorChan
C12_Witness ==
  /\ PingWriteFailed
  /\ supPc = "Closed"
  /\ pumpPc = "SendOut"
  /\ errorChan = <<>>
  /\ Count(trace, PingMessage) >= 1
  /\ Len(outputChan) >= 1

\* the step in which subscribe() returns nil: the handshake completes
HandshakeCompletes == supPc = "SetDeadline" /\ supPc' = "Select"
\* a step in which a read in flight on the open Connection meets a pong:
\* the read goes on, nothing is written, no frame is returned
PongReceived ==
  /\ conn = "open"
  /\ supPc \in Reading \/ pumpPc = "Read"
  /\ UNCHANGED <<supPc, pumpPc, trace, wire>>
\* the deadline 12 seconds (10s * 6 / 5) after the time of the step
ArmedAtTwelve == deadline' = now + 12

\* C13 as stated, its third sentence: no deadline is armed before the
\* handshake completes.
C13_NoDeadlineBeforeHandshake ==
  deadline # 0 => Count(trace, "deadline") = 1

\* C13 amended: the read deadline changes only when the handshake completes
\* and when a pong is received, during the handshake reads too, each time to
\* the time of the event + 12s; the completing handshake arms it; a data
\* frame read and a ping written leave it unchanged.
C13_DeadlineArmedByHandshakeAndPong ==
  /\ [][(deadline' # deadline) =>
         ((HandshakeCompletes \/ PongReceived) /\ ArmedAtTwelve)]_vars
  /\ [][HandshakeCompletes => ArmedAtTwelve]_vars
  /\ [][(wire' # wire) => (deadline' = deadline)]_vars
  /\ [][(Count(trace', PingMessage) > Count(trace, PingMessage)) =>
         (deadline' = deadline)]_vars

\* streaming, a ping written and a frame read, the deadline re-armed by a
\* pong at the present time
C13_Witness ==
  /\ supPc = "Select"
  /\ Count(trace, PingMessage) >= 1
  /\ Len(wire) >= 1
  /\ now >= PingPeriod
  /\ deadline = now + 12

\* listen() has ended: it returned or its goroutine panicked
Ended == supPc \in {"Closed", "Panicked"}

\* C14: one listen() dials exactly once, writes the authentication and the
\* subscription request at most once each and starts streaming at most once;
\* once it has ended on a failure it dials, writes and streams no more.
C14_SingleShot ==
  /\ [](/\ Count(trace, "dial") = (IF supPc = "Disconnected" THEN 0 ELSE 1)
        /\ Count(trace, authMsg) <= 1
        /\ Count(trace, subMsg) <= 1
        /\ Count(trace, "go receiveMessages") <= 1
        /\ failedAt # "" => Ended)
  /\ [][Ended => (Ended' /\ trace' = trace)]_vars

\* the subscription exchange failed: one dial, one request of each kind,
\* no streaming
C14_Witness ==
  /\ supPc = "Closed"
  /\ failedAt = "SubRead"
  /\ Count(trace, "dial") = 1
  /\ Count(trace, authMsg) = 1
  /\ Count(trace, subMsg) = 1
  /\ Count(trace, "go receiveMessages") = 0

\* what a step may do once the Connection is closed: no frame is read; a
\* ReadMessage of the Pump returns the error of the closed Connection, and
\* the Pump calls ReadMessage no more after it
AfterCloseStep ==
  /\ wire' = wire
  /\ (pumpPc = "Read" /\ pumpPc' # "Read") =>
       (pumpPc' = "SendErr" /\ pumpErr'.cause = ClosedCause)
  /\ (pumpPc # "Read") => (pumpPc' # "Read")

Writes == {authMsg, subMsg, PingMessage, "close"}
WriteCount == Cardinality({i \in DOMAIN trace : trace[i] \in Writes})
\* a step that writes to the Connection or closes it is a step of the
\* Supervisor: the Pump does not move in it
WriteStep ==
  /\ supPc \in Writing \cup {"Select", "SetDeadline"} \cup Reading
  /\ UNCHANGED <<pumpPc, tt, pp, pumpErr, errSends, wire>>
  /\ Len(errorChan') <= Len(errorChan)
\* a step of the Pump (a read returned, a send on errorChan) writes nothing
\* and closes nothing
PumpMoves == wire' # wire \/ pumpErr' # pumpErr \/ errSends' # errSends

\* C16: a handshake read of the Supervisor and a read of the Pump are never
\* in flight together, the Pump being started only in the streaming state;
\* every write and the close are steps of the Supervisor, at most one in a
\* step; a step of the Pump neither writes nor closes.
C16_OneReaderOneWriter ==
  /\ [](/\ ~(supPc \in Reading /\ pumpPc = "Read")
        /\ pumpPc # "NotStarted" => Rank(supPc) >= 4)
  /\ [][(WriteCount' # WriteCount) => (WriteStep /\ WriteCount' = WriteCount + 1)]_vars
  /\ [][PumpMoves => UNCHANGED <<trace, conn, closeCount, supPc>>]_vars

\* the Supervisor is delivering a frame while the Pump reads the next one,
\* pings having been written
C16_Witness ==
  /\ supPc = "Forward"
  /\ pumpPc = "Read"
  /\ conn = "open"
  /\ Count(trace, PingMessage) >= 1
  /\ Count(trace, authMsg) = 1

\* text frames the Supervisor has received from out
HandedOver == Len(outputChan) + (IF supPc = "Forward" THEN 1 ELSE 0)
\* text frames the Pump has read and the Supervisor has not received
Pending == Len(TextPayloads(wire)) - HandedOver

\* C17: the Pump holds at most one text frame it has read and not handed to
\* the Supervisor, it holds one exactly while it waits in `out <- pp`, and
\* while it waits there no ReadMessage returns.
C17_ReadAheadOfOne ==
  /\ [](/\ Pending \in {0, 1}
        /\ Pending = 1 <=> pumpPc = "SendOut")
  /\ [][(pumpPc = "SendOut") => (wire' = wire /\ pumpPc' \in {"SendOut", "Read"})]_vars
  /\ [][(pumpPc = "SendOut" /\ pumpPc' = "Read") => (supPc = "Select" /\ supPc' = "Forward")]_vars

\* the Supervisor is delivering a frame, the Pump holds the next one, and
\* the Connection is open with frames left to read
C17_Witness ==
  /\ supPc = "Forward"
  /\ pumpPc = "SendOut"
  /\ conn = "open"
  /\ Len(wire) < MaxFrames
  /\ supMsg # pp

\* the Pump's read error is in errorChan and listen() has not returned
Deposited == errorChan # <<>> /\ supPc # "Closed"
\* listen() has returned the Pump's read error
ReturnedReadError == supPc = "Closed" /\ retErr = pumpErr
\* listen() has returned the error of a failed ping write
ReturnedPingError == supPc = "Closed" /\ retErr.cause \in WriteCauses /\ retErr = raised
\* the step in which listen() returns with the read error deposited
ReturnsWhileDeposited == Deposited /\ supPc' = "Closed"
\* either the select received the read error and listen() returns it, or
\* the select took the ticker, the ping write failed and listen() returns
\* the write error, the read error staying in errorChan
ReadOrPingError ==
  \/ errorChan' = <<>> /\ retErr' = Head(errorChan) /\ retErr' = pumpErr
  \/ errorChan' = errorChan /\ tickerC = 1 /\ retErr'.cause \in WriteCauses

\* C18 as stated: provided the consumer of outputChan keeps receiving, once
\* the read error is in errorChan listen() eventually returns that error.
C18_ReadErrorReturned ==
  SinkReceives => (Deposited ~> ReturnedReadError)

\* C18 amended: provided the consumer of outputChan keeps receiving, once
\* the read error is in errorChan listen() eventually returns, and it
\* returns either that read error or, when the select took a tick first and
\* the ping write failed, the write error.
C18_ReadOrPingErrorReturned ==
  /\ SinkReceives => (Deposited ~> (ReturnedReadError \/ ReturnedPingError))
  /\ [][ReturnsWhileDeposited => ReadOrPingError]_vars

\* listen() returned the read error of a broken Connection although a tick
\* was waiting in ticker.C
C18_Witness ==
  /\ ExitOnErrorSignal
  /\ retErr = pumpErr
  /\ retErr.cause \in ReadCauses
  /\ tickerC = 1
  /\ Count(trace, PingMessage) >= 1

\* the dial failed and Dial returned a response
DialFailedWithResponse == failedAt = "Connecting" /\ hresp.present

\* C19: when the dial fails with a response, listen() returns an error
\* that carries the cause of the dial, the status code and the body of the
\* response; the body was read, then closed; it is closed once on this path
\* and once when the dial succeeds, never twice.
C19_DialErrorCarriesResponse ==
  /\ DialFailedWithResponse =>
       /\ supPc = "Closed"
       /\ retErr.cause = raised.cause
       /\ retErr.cause \in DialCauses
       /\ retErr.status = hresp.status
       /\ retErr.body = hresp.body
       /\ bodyLog = <<"ReadAll", "Close">>
  /\ DialSucceeded => bodyLog = <<"Close">>
  /\ Count(bodyLog, "Close") <= 1

\* the remote answered the dial with 403 and the body "forbidden"
C19_Witness ==
  /\ supPc = "Closed"
  /\ DialFailedWithResponse
  /\ retErr.status = 403
  /\ retErr.body = "forbidden"
  /\ retErr.cause = "bad handshake"
  /\ Count(bodyLog, "Close") = 1

\* s without its leading and trailing spaces
NonSpace(s) == {i \in DOMAIN s : s[i] # Space}
Min(S) == CHOOSE x \in S : \A y \in S : x <= y
Max(S) == CHOOSE x \in S : \A y \in S : x >= y
Stripped(s) ==
  IF NonSpace(s) = {} THEN <<>> ELSE SubSeq(s, Min(NonSpace(s)), Max(NonSpace(s)))
StartsWithTiming(s) == Len(s) >= 1 /\ s[1] = "\\timing"
QuitLines == {<<"\\stop">>, <<"\\quit">>, <<"\\q">>, <<"exit">>}
\* the step is an iteration of the loop: r.Readline() has returned
Iteration == cliPc = "Readline" /\ nLines' = nLines + 1
\* the iteration got a line, the line input'
GotLine == Iteration /\ readErr' = "nil"
\* the iteration leaves the loop
LoopEnds == Iteration /\ cliPc' = "Done"

\* C20 as stated, its clause on the timing flag: the flag changes only on a
\* line that starts with \timing.
C20_TimingOnlyOnTimingLine ==
  [][(timing' # timing) => (GotLine /\ StartsWithTiming(input'))]_vars

\* C20 amended: the loop ends exactly on io.EOF and on a line that, its
\* spaces trimmed, is \stop, \quit, \q or exit, so no other read error and
\* no other line ends it; the timing flag changes exactly on a line that,
\* its spaces trimmed, starts with \timing, and becomes its negation.
C20_LoopEndsOnQuitTimingToggles ==
  /\ [][Iteration =>
         (LoopEnds <=> \/ readErr' = EOF
                       \/ GotLine /\ Stripped(input') \in QuitLines)]_vars
  /\ [][(cliPc = "Readline" /\ cliPc' = "Done") => Iteration]_vars
  /\ [][(timing' # timing) <=> (GotLine /\ StartsWithTiming(Stripped(input')))]_vars
  /\ [][(timing' # timing) => (timing' = ~timing)]_vars

\* two lines starting with \timing were read, the second after spaces: the
\* flag is back at its first value and the loop goes on
C20_Witness ==
  /\ nLines = 2
  /\ called = "timing"
  /\ input[1] = Space
  /\ timing = FALSE
  /\ cliPc = "Readline"
====
